---------------------------- MODULE Spec2Model ----------------------------
(***************************************************************************)
(* A state-machine model of the Minimap control of react-mapbox-minimap.   *)
(*                                                                         *)
(* The repository holds two copies of the control that differ in the drag  *)
(* code: src/src/minimap.ts and src/unnamed/part_000.  The variable        *)
(* `variant` says which copy runs; every property is checked for both.     *)
(*                                                                         *)
(* Geographic points are <<lng, lat>> pairs, as the code's [lng, lat]      *)
(* arrays; a bounds object is a record [ne, sw] of [lng, lat] records, as  *)
(* the map library's LngLatBounds {_ne, _sw}.                              *)
(***************************************************************************)
EXTENDS Integers, Sequences, FiniteSets

VARIABLES
    variant,                  \* which copy of the control is running
    options,                  \* this.options (the fields the handlers read)
    stage,                    \* lifecycle: constructed, added, loaded, removed
    map,                      \* the primary view: its bounds and zoom
    mapListeners,             \* events of the primary view the control listens to
    minimapListeners,         \* events of the inset view the control listens to
    minimapZoom,              \* zoom of the inset view
    trackingRect,             \* this.trackingRect: the geojson source and its _data
    trackingRectCoordinates,  \* this.trackingRectCoordinates (aliased by the source)
    isDragging,
    isCursorOverFeature,
    cursor,                   \* this.minimapCanvas.style.cursor
    currentPoint,
    previousPoint,
    fitRequest,               \* the last map.fitBounds call, <<>> when none
    evt,                      \* the last event delivered: its name and pointer point
    drags,                    \* number of drag gestures started so far
    minimapCenter,            \* center of the inset view
    isCollapsed,
    domListeners,             \* DOM listeners the control has attached
    calls,                    \* the last handler's effects on the drag flag and
                              \* the primary view, in program order
    raised,                   \* the last handler threw an exception
    dragStart                 \* the running drag: bounds and point at its
                              \* pointer-down, and whether a clamp has cut it

vars == <<variant, options, stage, map, mapListeners, minimapListeners,
          minimapZoom, trackingRect, trackingRectCoordinates, isDragging,
          isCursorOverFeature, cursor, currentPoint, previousPoint,
          fitRequest, evt, drags, minimapCenter, isCollapsed, domListeners,
          calls, raised, dragStart>>

-----------------------------------------------------------------------------
(* Bounds of the model and the inputs the environment draws from.          *)

MaxDrags == 1

Variants == {"minimap", "part_000"}

\* Pointer geo-points delivered with inset pointer events: two inside the
\* first viewport's extent, one inside the second's.
Points == {<<0, 0>>, <<5, 0>>, <<-175, -85>>}

LngLat(lng, lat) == [lng |-> lng, lat |-> lat]

MkBounds(ne, sw) == [ne |-> ne, sw |-> sw]

\* Viewports the primary view can show: its visible extent (valid: NE >= SW,
\* inside the latitude/longitude range) and its zoom.
MapViews ==
    { [bounds |-> MkBounds(LngLat(10, 10), LngLat(-10, -10)), zoom |-> 5],
      [bounds |-> MkBounds(LngLat(-170, -80), LngLat(-178, -88)), zoom |-> 6] }

\* Configurations: the defaults, and the README example's overrides.
Configs ==
    { [zoomLevelOffset |-> -3, disableMinimapMoveOnDrag |-> FALSE,
       toggleDisplay |-> FALSE, enableResize |-> FALSE, enableMove |-> FALSE,
       center |-> <<0, 0>>],
      [zoomLevelOffset |-> -4, disableMinimapMoveOnDrag |-> TRUE,
       toggleDisplay |-> TRUE, enableResize |-> TRUE, enableMove |-> TRUE,
       center |-> <<0, 0>>] }

-----------------------------------------------------------------------------
(* Program constants.                                                      *)

MaxLat == 90
MaxLng == 180
MinLat == -90
MinLng == -180
DragFitDuration == 80
ReleaseFitDuration == 500

Min(a, b) == IF a <= b THEN a ELSE b
Max(a, b) == IF a >= b THEN a ELSE b

-----------------------------------------------------------------------------
(* Pure helpers translated from the source.                                *)

\* JavaScript array element assignment a[i] = v (0-based i), which extends
\* the array when i is its length.
SetAt(a, i, v) ==
    [j \in 1..Max(Len(a), i + 1) |-> IF j = i + 1 THEN v ELSE a[j]]

\* trc[0][p][c] = v
SetCoord(trc, p, c, v) ==
    [trc EXCEPT ![1] = [@ EXCEPT ![p + 1] = SetAt(@, c, v)]]

\* this.trackingRectCoordinates as the constructor leaves it.
InitialCoordinates == << << <<>>, <<>>, <<>>, <<>>, <<>> >> >>

\* Mutant of convertBoundsToPoints: the second corner takes SW's latitude.
convertBoundsToPointsWrongCorner(trc, bounds) ==
    LET ne == bounds.ne
        sw == bounds.sw
        t1 == SetCoord(trc, 0, 0, ne.lng)
        t2 == SetCoord(t1, 0, 1, ne.lat)
        t3 == SetCoord(t2, 1, 0, sw.lng)
        t4 == SetCoord(t3, 1, 1, sw.lat)
        t5 == SetCoord(t4, 2, 0, sw.lng)
        t6 == SetCoord(t5, 2, 1, sw.lat)
        t7 == SetCoord(t6, 3, 0, ne.lng)
        t8 == SetCoord(t7, 3, 1, sw.lat)
        t9 == SetCoord(t8, 4, 0, ne.lng)
    IN  SetCoord(t9, 4, 1, ne.lat)

convertBoundsToPoints(trc, bounds) ==
    LET ne == bounds.ne
        sw == bounds.sw
        t1 == SetCoord(trc, 0, 0, ne.lng)
        t2 == SetCoord(t1, 0, 1, ne.lat)
        t3 == SetCoord(t2, 1, 0, sw.lng)
        t4 == SetCoord(t3, 1, 1, ne.lat)
        t5 == SetCoord(t4, 2, 0, sw.lng)
        t6 == SetCoord(t5, 2, 1, sw.lat)
        t7 == SetCoord(t6, 3, 0, ne.lng)
        t8 == SetCoord(t7, 3, 1, sw.lat)
        t9 == SetCoord(t8, 4, 0, ne.lng)
    IN  SetCoord(t9, 4, 1, ne.lat)

\* bounds._ne.lat -= offset[1]; ... (the four in-place subtractions)
translateBounds(bounds, offset) ==
    MkBounds(LngLat(bounds.ne.lng - offset[1], bounds.ne.lat - offset[2]),
             LngLat(bounds.sw.lng - offset[1], bounds.sw.lat - offset[2]))

\* Mutant of restrictBounds: the south-west latitude is not clamped.
restrictBoundsNoSouthClamp(bounds) ==
    MkBounds(LngLat(Min(bounds.ne.lng, MaxLng), Min(bounds.ne.lat, MaxLat)),
             LngLat(Max(bounds.sw.lng, MinLng), bounds.sw.lat))

\* "Restrict bounds to valid latitude/longitude ranges"
restrictBounds(bounds) ==
    MkBounds(LngLat(Min(bounds.ne.lng, MaxLng), Min(bounds.ne.lat, MaxLat)),
             LngLat(Max(bounds.sw.lng, MinLng), Max(bounds.sw.lat, MinLat)))

\* moveTrackingRect of src/src/minimap.ts: translate, clamp, setData.  The
\* polygon coordinates are not touched.  Yields the new source and polygon.
moveTrackingRect(source, trc, offset) ==
    IF ~source.attached \/ ~source.hasBounds
    THEN [source |-> source, trc |-> trc]
    ELSE [source |-> [source EXCEPT
                        !.bounds = restrictBounds(translateBounds(@, offset))],
          trc |-> trc]

\* moveTrackingRect of src/unnamed/part_000: translate, regenerate the
\* polygon from the translated bounds, then clamp, setData.
moveTrackingRectPart000(source, trc, offset) ==
    IF ~source.attached \/ ~source.hasBounds
    THEN [source |-> source, trc |-> trc]
    ELSE LET moved == translateBounds(source.bounds, offset)
         IN  [source |-> [source EXCEPT !.bounds = restrictBounds(moved)],
              trc |-> convertBoundsToPoints(trc, moved)]

\* A complete point of the polygon ring: both coordinates written.
IsPoint(p) == Len(p) = 2

\* minimap.queryRenderedFeatures(e.point, {layers: ["trackingRectFill"]}):
\* the features of the fill layer under the pointer, here whether there are
\* any: the point lies in the rectangle drawn from the polygon ring.
queryRenderedFeatures(trc, point) ==
    LET ring == trc[1]
    IN  /\ \A i \in 1..Len(ring) : IsPoint(ring[i])
        /\ \E i, j \in 1..Len(ring) :
              /\ ring[i][1] <= point[1] /\ point[1] <= ring[j][1]
        /\ \E i, j \in 1..Len(ring) :
              /\ ring[i][2] <= point[2] /\ point[2] <= ring[j][2]

-----------------------------------------------------------------------------
(* Initial state: the control as its constructor leaves it, with the       *)
(* configuration merged into the defaults, beside a primary view.          *)

NoSource ==
    [attached |-> FALSE, hasBounds |-> FALSE,
     bounds |-> MkBounds(LngLat(0, 0), LngLat(0, 0))]

\* No drag is running.
NoDrag ==
    [active |-> FALSE, bounds |-> MkBounds(LngLat(0, 0), LngLat(0, 0)),
     point |-> <<0, 0>>, clamped |-> FALSE]

Init ==
    /\ variant \in Variants
    /\ options \in Configs
    /\ stage = "constructed"
    /\ map \in MapViews
    /\ mapListeners = {}
    /\ minimapListeners = {}
    /\ minimapZoom = 0
    /\ trackingRect = NoSource
    /\ trackingRectCoordinates = InitialCoordinates
    /\ isDragging = FALSE
    /\ isCursorOverFeature = FALSE
    /\ cursor = ""
    /\ currentPoint = <<0, 0>>
    /\ previousPoint = <<0, 0>>
    /\ fitRequest = <<>>
    /\ evt = [op |-> "constructor", point |-> <<0, 0>>]
    /\ drags = 0
    /\ minimapCenter = options.center
    /\ isCollapsed = FALSE
    /\ domListeners = {}
    /\ calls = <<>>
    /\ raised = FALSE
    /\ dragStart = NoDrag


-----------------------------------------------------------------------------
(* The handlers' helpers, as operators from the state they read to the     *)
(* values they write.                                                      *)

\* this.map is set by onAdd and never cleared; this.minimap is set by onAdd
\* and cleared by onRemove.
HasMap(s) == s \in {"added", "loaded", "removed"}
HasMinimap(s) == s \in {"added", "loaded"}

\* Mutant of zoomAdjust: the offset is subtracted.
zoomAdjustSubtractsOffset(s, m, zoom) ==
    IF HasMinimap(s) /\ HasMap(s) THEN m.zoom - options.zoomLevelOffset ELSE zoom

\* zoomAdjust: the inset zoom it leaves behind.
zoomAdjust(s, m, zoom) ==
    IF HasMinimap(s) /\ HasMap(s) THEN m.zoom + options.zoomLevelOffset ELSE zoom

\* setTrackingRectBounds: store the primary view's bounds in the source's
\* data, regenerate the polygon from them, setData.
setTrackingRectBounds(s, m, source, trc) ==
    IF ~HasMap(s) \/ ~source.attached
    THEN [source |-> source, trc |-> trc]
    ELSE [source |-> [source EXCEPT !.hasBounds = TRUE, !.bounds = m.bounds],
          trc |-> convertBoundsToPoints(trc, m.bounds)]

\* Mutant of update: no early return while dragging.
updateIgnoringDrag(dragging, s, m, source, trc, zoom) ==
    LET r == setTrackingRectBounds(s, m, source, trc)
    IN  [source |-> r.source, trc |-> r.trc, zoom |-> zoomAdjust(s, m, zoom)]

\* update, the primary view's 'move' listener.
update(dragging, s, m, source, trc, zoom) ==
    IF dragging
    THEN [source |-> source, trc |-> trc, zoom |-> zoom]
    ELSE LET r == setTrackingRectBounds(s, m, source, trc)
         IN  [source |-> r.source, trc |-> r.trc, zoom |-> zoomAdjust(s, m, zoom)]

\* The copy's own moveTrackingRect.
MoveRect(source, trc, offset) ==
    IF variant = "minimap"
    THEN moveTrackingRect(source, trc, offset)
    ELSE moveTrackingRectPart000(source, trc, offset)

\* The events load() subscribes to on the inset view.
loadMinimapEvents(v) ==
    IF v = "minimap"
    THEN {"mousemove", "mousedown", "mouseup"}
    ELSE {"mousemove", "mousedown", "mouseup",
          "touchmove", "touchstart", "touchend"}

\* mouseDown's branch condition.
mouseDownStartsDrag(overFeature) == overFeature

\* mouseUp: what it does to the primary view's listeners when a drag ends.
mouseUpListeners(listeners) == listeners \ {"move"}

\* Mutant of dragOffset: current point minus previous point.
dragOffsetReversed(prev, cur) == <<cur[1] - prev[1], cur[2] - prev[2]>>

\* mouseMove: the offset handed to moveTrackingRect.
dragOffset(prev, cur) == <<prev[1] - cur[1], prev[2] - cur[2]>>

\* this.container is set by onAdd and never cleared; this.toggleButton is
\* created by enableToggle (in onAdd) when toggleDisplay is on.
HasContainer(s) == s # "constructed"
HasToggleButton(s) == s # "constructed" /\ options.toggleDisplay

\* map.getCenter(): the center of the primary view, the middle of its extent.
getCenter(m) ==
    << (m.bounds.ne.lng + m.bounds.sw.lng) \div 2,
       (m.bounds.ne.lat + m.bounds.sw.lat) \div 2 >>

\* Mutant of mapMoved: the inset is not re-centered during a drag.
mapMovedUnlessDragging(s, m, center) ==
    IF HasMinimap(s) /\ HasMap(s) /\ ~isDragging THEN getCenter(m) ELSE center

\* mapMoved, the primary view's 'moveend' listener: the inset center it leaves.
mapMoved(s, m, center) ==
    IF HasMinimap(s) /\ HasMap(s) THEN getCenter(m) ELSE center

\* toggle, with collapse and expand: the isCollapsed it leaves.
toggle(s, collapsed) ==
    IF ~HasContainer(s) \/ ~HasToggleButton(s) THEN collapsed
    ELSE IF options.toggleDisplay THEN ~collapsed ELSE collapsed

\* Mutant of hoverFlag: the flag is only ever raised.
hoverFlagNeverCleared(flag, hit) == flag \/ hit

\* mouseMove: the cursor-over flag after the hit test.
hoverFlag(flag, hit) == IF ~(flag /\ hit) THEN hit ELSE flag

\* Mutant of hoverCursor: the cursor is not restored when the pointer leaves.
hoverCursorKeepsMove(flag, hit, style) ==
    IF ~(flag /\ hit) /\ hit THEN "move" ELSE style

\* mouseMove: the canvas cursor after the hit test.
hoverCursor(flag, hit, style) ==
    IF ~(flag /\ hit) THEN (IF hit THEN "move" ELSE "") ELSE style

\* Mutant of dragFitCalls: the primary view is fitted on every drag move.
dragFitCallsAlways(disable) == <<"fitBounds">>

\* mouseMove while dragging: its calls on the primary view.
dragFitCalls(disable) == IF ~disable THEN <<"fitBounds">> ELSE <<>>

\* Mutant of mouseUpCalls: the request is sent before the listener is detached.
mouseUpCallsFitFirst == <<"isDragging = false", "fitBounds", "off move">>

\* mouseUp ending a drag: its effects in program order.
mouseUpCalls == <<"isDragging = false", "off move", "fitBounds">>

\* Mutant of mouseDownPoints: the event point is recorded as both points.
mouseDownPointsBothEvent(cur, p) == [previous |-> p, current |-> p]

\* Mutant of mouseDownPoints: the event point is not recorded.
mouseDownPointsNotRecorded(cur, p) == [previous |-> cur, current |-> cur]

\* mouseDown starting a drag: the points it records.
mouseDownPoints(cur, p) == [previous |-> cur, current |-> p]

\* DOM listeners attached by onAdd (createContainer, enableResize,
\* enableMove, enableToggle).
onAddDomListeners(opts) ==
    {"container contextmenu"}
    \cup (IF opts.enableResize
          THEN {"container mousedown", "window mouseup"} ELSE {})
    \cup (IF opts.enableMove THEN {"moveHandle mousedown"} ELSE {})
    \cup (IF opts.toggleDisplay
          THEN {"toggleButton click preventDefault", "toggleButton click onToggle"}
          ELSE {})

\* DOM listeners attached by load on the inset's canvas container.
loadDomListeners(v) ==
    IF v = "minimap" THEN {"canvas wheel"}
    ELSE {"canvas wheel", "canvas mousewheel"}

\* DOM listeners onRemove detaches.
onRemoveDomListeners(v) ==
    loadDomListeners(v)
    \cup {"toggleButton click preventDefault", "toggleButton click onToggle",
          "container contextmenu"}

\* Listeners of the primary view onRemove detaches.
onRemoveMapEvents == {"move"}

\* enableResize's onMouseDown, the container's 'mousedown' listener: it
\* attaches handleResize to the window's 'mousemove'.
resizeOnMouseDown(listeners) == listeners \cup {"window mousemove"}

\* enableResize's onMouseUp, the window's 'mouseup' listener: it detaches
\* handleResize.  It was added with {once: true}, so the window drops it when
\* it is first dispatched.
resizeOnMouseUp(listeners) ==
    (listeners \ {"window mousemove"}) \ {"window mouseup"}

-----------------------------------------------------------------------------
(* Actions: one per handler or environment event.                          *)

\* map.addControl(minimap): onAdd creates the container and the inset view
\* (centered on options.center), adjusts its zoom and attaches the DOM
\* listeners of the enabled features.
OnAdd ==
    /\ stage = "constructed"
    /\ stage' = "added"
    /\ minimapCenter' = options.center
    /\ minimapZoom' = zoomAdjust("added", map, minimapZoom)
    /\ minimapListeners' = {"load"}
    /\ domListeners' = domListeners \cup onAddDomListeners(options)
    /\ evt' = [evt EXCEPT !.op = "onAdd"]
    /\ calls' = <<>>
    /\ raised' = FALSE
    /\ UNCHANGED <<variant, options, map, mapListeners, trackingRect,
                   trackingRectCoordinates, isDragging, isCursorOverFeature,
                   cursor, currentPoint, previousPoint, fitRequest, drags,
                   isCollapsed, dragStart>>

\* The inset view's 'load' event, delivered once its style has loaded;
\* onRemove does not unsubscribe from it.  load() adds the source and layers,
\* runs update() once and subscribes to the two views.  After onRemove
\* this.minimap is null and load()'s first use of it throws a TypeError.
Load ==
    /\ stage \in {"added", "removed"}
    /\ "load" \in minimapListeners
    /\ ~trackingRect.attached
    /\ IF HasMinimap(stage)
       THEN /\ LET source == [NoSource EXCEPT !.attached = TRUE]
                   r == update(isDragging, "added", map, source,
                               trackingRectCoordinates, minimapZoom)
               IN  /\ trackingRect' = r.source
                   /\ trackingRectCoordinates' = r.trc
                   /\ minimapZoom' = r.zoom
            /\ mapListeners' = mapListeners \cup {"move", "moveend"}
            /\ minimapListeners' =
                  minimapListeners \cup loadMinimapEvents(variant)
            /\ domListeners' = domListeners \cup loadDomListeners(variant)
            /\ stage' = "loaded"
            /\ raised' = FALSE
       ELSE /\ raised' = TRUE
            /\ UNCHANGED <<trackingRect, trackingRectCoordinates, minimapZoom,
                           mapListeners, minimapListeners, domListeners,
                           stage>>
    /\ evt' = [evt EXCEPT !.op = "load"]
    /\ calls' = <<>>
    /\ UNCHANGED <<variant, options, map, isDragging, isCursorOverFeature,
                   cursor, currentPoint, previousPoint, fitRequest, drags,
                   minimapCenter, isCollapsed, dragStart>>

\* The primary view's viewport changes (user navigation or an animation)
\* and it emits 'move'; update() runs if it is subscribed.
ViewportChanged(view) ==
    /\ map' = view
    /\ IF "move" \in mapListeners
       THEN LET r == update(isDragging, stage, map', trackingRect,
                            trackingRectCoordinates, minimapZoom)
            IN  /\ trackingRect' = r.source
                /\ trackingRectCoordinates' = r.trc
                /\ minimapZoom' = r.zoom
       ELSE UNCHANGED <<trackingRect, trackingRectCoordinates, minimapZoom>>
    /\ evt' = [evt EXCEPT !.op = "move"]
    /\ calls' = <<>>
    /\ raised' = FALSE
    /\ UNCHANGED <<variant, options, stage, mapListeners, minimapListeners,
                   isDragging, isCursorOverFeature, cursor, currentPoint,
                   previousPoint, fitRequest, drags, minimapCenter,
                   isCollapsed, domListeners, dragStart>>

\* The primary view's viewport settles and it emits 'moveend'; mapMoved()
\* runs if it is subscribed.
ViewportSettled ==
    /\ minimapCenter' =
          IF "moveend" \in mapListeners
          THEN mapMoved(stage, map, minimapCenter)
          ELSE minimapCenter
    /\ evt' = [evt EXCEPT !.op = "moveend"]
    /\ calls' = <<>>
    /\ raised' = FALSE
    /\ UNCHANGED <<variant, options, stage, map, mapListeners,
                   minimapListeners, minimapZoom, trackingRect,
                   trackingRectCoordinates, isDragging, isCursorOverFeature,
                   cursor, currentPoint, previousPoint, fitRequest, drags,
                   isCollapsed, domListeners, dragStart>>

\* A pointer move over the inset view ('mousemove', 'touchmove').
MouseMove(p) ==
    /\ "mousemove" \in minimapListeners
    /\ stage = "loaded"
    /\ LET hit == queryRenderedFeatures(trackingRectCoordinates, p)
       IN  /\ isCursorOverFeature' = hoverFlag(isCursorOverFeature, hit)
           /\ cursor' = hoverCursor(isCursorOverFeature, hit, cursor)
    /\ IF isDragging
       THEN LET offset == dragOffset(currentPoint, p)
                r == MoveRect(trackingRect, trackingRectCoordinates, offset)
                moved == translateBounds(trackingRect.bounds, offset)
            IN  /\ previousPoint' = currentPoint
                /\ currentPoint' = p
                /\ trackingRect' = r.source
                /\ trackingRectCoordinates' = r.trc
                /\ calls' = dragFitCalls(options.disableMinimapMoveOnDrag)
                /\ fitRequest' =
                      IF calls' # <<>>
                      THEN << [bounds |-> r.source.bounds,
                               duration |-> DragFitDuration] >>
                      ELSE fitRequest
                /\ dragStart' =
                      [dragStart EXCEPT
                         !.clamped = @ \/ restrictBounds(moved) # moved]
       ELSE /\ calls' = <<>>
            /\ UNCHANGED <<previousPoint, currentPoint, trackingRect,
                           trackingRectCoordinates, fitRequest, dragStart>>
    /\ evt' = [op |-> "mouseMove", point |-> p]
    /\ raised' = FALSE
    /\ UNCHANGED <<variant, options, stage, map, mapListeners,
                   minimapListeners, minimapZoom, isDragging, drags,
                   minimapCenter, isCollapsed, domListeners>>

\* A pointer down on the inset view.  A 'mousedown' comes at the mouse's
\* position, the point of the last pointer event; a 'touchstart' (only
\* part_000 subscribes to it) comes at any point.
MouseDown(p) ==
    /\ \/ "mousedown" \in minimapListeners /\ p = evt.point
       \/ "touchstart" \in minimapListeners
    /\ IF mouseDownStartsDrag(isCursorOverFeature)
       THEN /\ drags < MaxDrags
            /\ isDragging' = TRUE
            /\ previousPoint' = mouseDownPoints(currentPoint, p).previous
            /\ currentPoint' = mouseDownPoints(currentPoint, p).current
            /\ drags' = drags + 1
            /\ dragStart' = [active |-> TRUE, bounds |-> trackingRect.bounds,
                             point |-> p, clamped |-> FALSE]
       ELSE UNCHANGED <<isDragging, previousPoint, currentPoint, drags,
                        dragStart>>
    /\ evt' = [op |-> "mouseDown", point |-> p]
    /\ calls' = <<>>
    /\ raised' = FALSE
    /\ UNCHANGED <<variant, options, stage, map, mapListeners,
                   minimapListeners, minimapZoom, trackingRect,
                   trackingRectCoordinates, isCursorOverFeature, cursor,
                   fitRequest, minimapCenter, isCollapsed, domListeners>>

\* A pointer up on the inset view ('mouseup', 'touchend').
MouseUp ==
    /\ "mouseup" \in minimapListeners
    /\ IF isDragging
       THEN /\ isDragging' = FALSE
            /\ dragStart' = NoDrag
            /\ IF trackingRect.attached /\ HasMap(stage) /\ HasMinimap(stage)
               THEN /\ calls' = mouseUpCalls
                    /\ mapListeners' = mouseUpListeners(mapListeners)
                    /\ fitRequest' = << [bounds |-> trackingRect.bounds,
                                         duration |-> ReleaseFitDuration] >>
               ELSE /\ calls' = <<"isDragging = false">>
                    /\ UNCHANGED <<mapListeners, fitRequest>>
       ELSE /\ calls' = <<>>
            /\ UNCHANGED <<isDragging, mapListeners, fitRequest, dragStart>>
    /\ evt' = [evt EXCEPT !.op = "mouseUp"]
    /\ raised' = FALSE
    /\ UNCHANGED <<variant, options, stage, map, minimapListeners,
                   minimapZoom, trackingRect, trackingRectCoordinates,
                   isCursorOverFeature, cursor, currentPoint, previousPoint,
                   drags, minimapCenter, isCollapsed, domListeners>>

\* minimap.toggle(), also the toggle button's click listener.
Toggle ==
    /\ isCollapsed' = toggle(stage, isCollapsed)
    /\ evt' = [evt EXCEPT !.op = "toggle"]
    /\ calls' = <<>>
    /\ raised' = FALSE
    /\ UNCHANGED <<variant, options, stage, map, mapListeners,
                   minimapListeners, minimapZoom, trackingRect,
                   trackingRectCoordinates, isDragging, isCursorOverFeature,
                   cursor, currentPoint, previousPoint, fitRequest, drags,
                   minimapCenter, domListeners, dragStart>>

\* A mouse-down on the control's container while it is in the page.
ContainerMouseDown ==
    /\ stage \in {"added", "loaded"}
    /\ "container mousedown" \in domListeners
    /\ domListeners' = resizeOnMouseDown(domListeners)
    /\ evt' = [evt EXCEPT !.op = "containerMouseDown"]
    /\ calls' = <<>>
    /\ raised' = FALSE
    /\ UNCHANGED <<variant, options, stage, map, mapListeners,
                   minimapListeners, minimapZoom, trackingRect,
                   trackingRectCoordinates, isDragging, isCursorOverFeature,
                   cursor, currentPoint, previousPoint, fitRequest, drags,
                   minimapCenter, isCollapsed, dragStart>>

\* A mouse-up anywhere in the window, once enableResize has run with the
\* option on (before that, and without the option, the control has no code
\* a window mouse-up could reach).
WindowMouseUp ==
    /\ HasContainer(stage)
    /\ options.enableResize
    /\ domListeners' =
          IF "window mouseup" \in domListeners
          THEN resizeOnMouseUp(domListeners)
          ELSE domListeners
    /\ evt' = [evt EXCEPT !.op = "windowMouseUp"]
    /\ calls' = <<>>
    /\ raised' = FALSE
    /\ UNCHANGED <<variant, options, stage, map, mapListeners,
                   minimapListeners, minimapZoom, trackingRect,
                   trackingRectCoordinates, isDragging, isCursorOverFeature,
                   cursor, currentPoint, previousPoint, fitRequest, drags,
                   minimapCenter, isCollapsed, dragStart>>

\* map.removeControl(minimap): onRemove unsubscribes and drops the inset view.
OnRemove ==
    /\ stage \in {"added", "loaded"}
    /\ stage' = "removed"
    /\ mapListeners' = mapListeners \ onRemoveMapEvents
    /\ minimapListeners' =
          minimapListeners \ loadMinimapEvents(variant)
    /\ domListeners' = domListeners \ onRemoveDomListeners(variant)
    /\ evt' = [evt EXCEPT !.op = "onRemove"]
    /\ calls' = <<>>
    /\ raised' = FALSE
    /\ UNCHANGED <<variant, options, map, minimapZoom, trackingRect,
                   trackingRectCoordinates, isDragging, isCursorOverFeature,
                   cursor, currentPoint, previousPoint, fitRequest, drags,
                   minimapCenter, isCollapsed, dragStart>>

Next ==
    \/ OnAdd
    \/ Load
    \/ \E view \in MapViews : ViewportChanged(view)
    \/ ViewportSettled
    \/ \E p \in Points : MouseMove(p)
    \/ \E p \in Points : MouseDown(p)
    \/ MouseUp
    \/ Toggle
    \/ ContainerMouseDown
    \/ WindowMouseUp
    \/ OnRemove

Spec == Init /\ [][Next]_vars

-----------------------------------------------------------------------------
(* Properties.                                                             *)

Bounds == trackingRect.bounds

Ring == trackingRectCoordinates[1]

\* The tracking rectangle of the data model: NE, (SW.lng, NE.lat), SW,
\* (NE.lng, SW.lat), NE.
Polygon(b) ==
    << <<b.ne.lng, b.ne.lat>>, <<b.sw.lng, b.ne.lat>>, <<b.sw.lng, b.sw.lat>>,
       <<b.ne.lng, b.sw.lat>>, <<b.ne.lng, b.ne.lat>> >>

\* The last event was a primary 'move' that update() handled outside a drag.
UpdateRan == evt.op = "move" /\ "move" \in mapListeners /\ ~isDragging

\* The last event was a pointer move handled inside a drag.
DragMoved == evt.op = "mouseMove" /\ isDragging

\* C1: once convertBoundsToPoints has written the polygon, the polygon is one
\* ring of exactly 5 two-coordinate points, the first equal to the last, that
\* visits NE, (SW.lng, NE.lat), SW, (NE.lng, SW.lat), NE; and right after
\* update() its NE and SW are those of the bounds it was given.
C1_PolygonIsClosedCornerRing ==
    trackingRectCoordinates # InitialCoordinates =>
        /\ Len(trackingRectCoordinates) = 1
        /\ Len(Ring) = 5
        /\ \A i \in 1..5 : Len(Ring[i]) = 2
        /\ Ring[5] = Ring[1]
        /\ Ring[2] = <<Ring[3][1], Ring[1][2]>>
        /\ Ring[4] = <<Ring[1][1], Ring[3][2]>>
        /\ (evt.op = "load" \/ UpdateRan) =>
              /\ Ring[1] = <<Bounds.ne.lng, Bounds.ne.lat>>
              /\ Ring[3] = <<Bounds.sw.lng, Bounds.sw.lat>>

C1_Witness ==
    /\ UpdateRan
    /\ trackingRectCoordinates =
          << << <<-170, -80>>, <<-178, -80>>, <<-178, -88>>, <<-170, -88>>,
                <<-170, -80>> >> >>

C3_MoveWhileDraggingIsNoOp ==
    [][(isDragging /\ evt'.op = "move") =>
          UNCHANGED <<trackingRect, trackingRectCoordinates, minimapZoom>>]_vars

\* A 'move' was delivered to update() during a drag, and the stored bounds
\* did not follow the primary view.
C3_Witness ==
    /\ evt.op = "move"
    /\ "move" \in mapListeners
    /\ isDragging
    /\ trackingRect.hasBounds
    /\ Bounds # map.bounds

\* C4: a pointer-down while idle starts a drag exactly when its point is
\* inside the tracking rectangle as drawn at that time.
C4_PointerDownHitDecidesDrag ==
    [][(evt'.op = "mouseDown" /\ ~isDragging) =>
          (isDragging' <=>
              queryRenderedFeatures(trackingRectCoordinates, evt'.point))]_vars

\* C5: the bounds moveTrackingRect leaves after a drag move have
\* NE.lat <= 90, NE.lng <= 180, SW.lat >= -90 and SW.lng >= -180.
C5_MovedBoundsClampedOutward ==
    DragMoved =>
        /\ Bounds.ne.lat <= 90
        /\ Bounds.ne.lng <= 180
        /\ Bounds.sw.lat >= -90
        /\ Bounds.sw.lng >= -180

\* A drag move whose translation left the range at the south-west corner
\* (part_000 keeps the translated corner in the polygon) and was clamped.
C5_Witness ==
    /\ DragMoved
    /\ variant = "part_000"
    /\ Ring[3][1] < -180
    /\ Ring[3][2] < -90
    /\ Bounds.sw = LngLat(-180, -90)

\* C6: the stored bounds always have NE.lat >= SW.lat.
C6_NorthNotBelowSouth ==
    trackingRect.hasBounds => Bounds.ne.lat >= Bounds.sw.lat

\* C7: both corners of the stored bounds are always inside the valid range:
\* longitudes in [-180, 180] and latitudes in [-90, 90].
C7_BothCornersInRange ==
    trackingRect.hasBounds =>
        /\ -180 <= Bounds.ne.lng /\ Bounds.ne.lng <= 180
        /\ -180 <= Bounds.sw.lng /\ Bounds.sw.lng <= 180
        /\ -90 <= Bounds.ne.lat /\ Bounds.ne.lat <= 90
        /\ -90 <= Bounds.sw.lat /\ Bounds.sw.lat <= 90

\* C8: every primary viewport change while the loaded control is idle,
\* also after a drag has ended, recomputes the inset zoom and the tracking
\* rectangle (the 'move' listener detached by pointer-up is attached again).
C8_IdleViewportChangeRecomputes ==
    (evt.op = "move" /\ stage = "loaded" /\ ~isDragging) =>
        /\ "move" \in mapListeners
        /\ minimapZoom = map.zoom + options.zoomLevelOffset
        /\ Bounds = map.bounds
        /\ trackingRectCoordinates = <<Polygon(map.bounds)>>

\* C9: after every pointer move handled during a drag the polygon is the
\* rectangle of the stored (translated and clamped) bounds.
C9_PolygonMatchesBoundsAfterDragMove ==
    DragMoved => trackingRectCoordinates = <<Polygon(Bounds)>>

\* C10: a pointer move during a drag records the points and translates both
\* corners by offset = previous point - current point (each side then
\* clamped outward): every corner coordinate decreases by the offset.
C10_DragMoveTranslatesByOffset ==
    [][(evt'.op = "mouseMove" /\ isDragging /\ trackingRect.hasBounds) =>
          LET dx == currentPoint[1] - evt'.point[1]
              dy == currentPoint[2] - evt'.point[2]
              b == trackingRect.bounds
              nb == trackingRect'.bounds
          IN  /\ previousPoint' = currentPoint
              /\ currentPoint' = evt'.point
              /\ nb.ne.lng = Min(b.ne.lng - dx, 180)
              /\ nb.ne.lat = Min(b.ne.lat - dy, 90)
              /\ nb.sw.lng = Max(b.sw.lng - dx, -180)
              /\ nb.sw.lat = Max(b.sw.lat - dy, -90)]_vars

\* The spec's example: offset (5,0) on NE(10,10)/SW(-10,-10), the bounds of the
\* primary view shown, gives NE(5,10)/SW(-15,-10).
C10_Witness ==
    /\ DragMoved
    /\ drags = 1
    /\ map.bounds = MkBounds(LngLat(10, 10), LngLat(-10, -10))
    /\ dragOffset(previousPoint, currentPoint) = <<5, 0>>
    /\ Bounds = MkBounds(LngLat(5, 10), LngLat(-15, -10))

\* The effects of the last handler include a bounds-fit request.
FitRequested == \E i \in 1..Len(calls) : calls[i] = "fitBounds"

\* C11: with disableMinimapMoveOnDrag on, no step that leaves a drag in
\* progress (its pointer-down and everything up to its pointer-up) sends a
\* bounds-fit request; with it off, every pointer move of a drag sends exactly
\* one request, for the new bounds, with duration 80.
C11_DragFitFollowsOption ==
    [][/\ (options.disableMinimapMoveOnDrag /\ isDragging') =>
             (~FitRequested' /\ fitRequest' = fitRequest)
       /\ (~options.disableMinimapMoveOnDrag /\ isDragging
             /\ evt'.op = "mouseMove") =>
             /\ calls' = <<"fitBounds">>
             /\ fitRequest' = << [bounds |-> trackingRect'.bounds,
                                  duration |-> 80] >>]_vars

\* With the option on, a drag has moved the rectangle off the primary view's
\* bounds and no fit request has ever been sent.
C11_Witness ==
    /\ DragMoved
    /\ options.disableMinimapMoveOnDrag
    /\ Bounds # map.bounds
    /\ Bounds # dragStart.bounds
    /\ fitRequest = <<>>

\* C12: the dragging flag is a boolean that goes from false to true only on
\* a pointer-down whose point is inside the tracking rectangle as drawn, goes
\* from true to false only on a pointer-up, and is changed by no other
\* operation.
C12_DragFlagTransitions ==
    [][/\ isDragging' \in BOOLEAN
       /\ (~isDragging /\ isDragging') =>
             /\ evt'.op = "mouseDown"
             /\ queryRenderedFeatures(trackingRectCoordinates, evt'.point)
       /\ (isDragging /\ ~isDragging') => evt'.op = "mouseUp"]_vars

\* C13: after onRemove no listener the control registered is still attached:
\* none on the primary view, none on the inset view, none on the DOM.
C13_RemoveDetachesEveryListener ==
    stage = "removed" =>
        /\ mapListeners = {}
        /\ minimapListeners = {}
        /\ domListeners = {}

\* C14: while the control is not mounted and loaded (before onAdd, before the
\* inset's load, after onRemove), every operation that is not itself the
\* lifecycle step out of that state completes without raising an error and
\* leaves the inset view, the tracking rectangle and the drag state alone.
C14_AbsentStateOperationsAreNoOps ==
    [][(stage # "loaded" /\ stage' = stage) =>
          /\ ~raised'
          /\ UNCHANGED <<trackingRect, trackingRectCoordinates, minimapZoom,
                         minimapCenter, isDragging, isCursorOverFeature,
                         cursor, currentPoint, previousPoint, fitRequest,
                         mapListeners, minimapListeners, domListeners>>]_vars

\* C15: a primary 'moveend' handled by the mounted control leaves the inset
\* centered on the primary view's center, during a drag as well, and changes
\* neither the stored bounds, nor the polygon, nor the inset zoom, nor the
\* drag state.
C15_SettledRecentersInsetOnly ==
    [][(evt'.op = "moveend" /\ stage = "loaded") =>
          /\ minimapCenter' = getCenter(map)
          /\ UNCHANGED <<map, trackingRect, trackingRectCoordinates,
                         minimapZoom, isDragging, isCursorOverFeature,
                         cursor, currentPoint, previousPoint>>]_vars

\* A 'moveend' handled during a drag moved the inset from the configured
\* center to the center of the primary view NE(-170,-80)/SW(-178,-88).
C15_Witness ==
    /\ evt.op = "moveend"
    /\ stage = "loaded"
    /\ isDragging
    /\ map.bounds = MkBounds(LngLat(-170, -80), LngLat(-178, -88))
    /\ minimapCenter = <<-174, -84>>
    /\ minimapCenter # options.center

\* C16: a pointer-up while dragging ends the drag, then detaches the primary
\* 'move' listener, then sends one bounds-fit request with duration 500 for
\* the stored bounds, which it leaves as they were; a pointer-up while idle
\* sends no request, detaches nothing and changes no state.
C16_PointerUpEndsDragThenFits ==
    [][evt'.op = "mouseUp" =>
          IF isDragging
          THEN /\ calls' = <<"isDragging = false", "off move", "fitBounds">>
               /\ ~isDragging'
               /\ "move" \notin mapListeners'
               /\ mapListeners' = mapListeners \ {"move"}
               /\ fitRequest' = << [bounds |-> trackingRect.bounds,
                                    duration |-> 500] >>
               /\ UNCHANGED <<trackingRect, trackingRectCoordinates>>
          ELSE /\ calls' = <<>>
               /\ UNCHANGED <<variant, options, stage, map, mapListeners,
                              minimapListeners, minimapZoom, trackingRect,
                              trackingRectCoordinates, isDragging,
                              isCursorOverFeature, cursor, currentPoint,
                              previousPoint, fitRequest, minimapCenter,
                              isCollapsed, domListeners>>]_vars

\* A pointer-up ended a drag that had moved the rectangle: the request for
\* the moved bounds came last and the 'move' listener is gone.
C16_Witness ==
    /\ evt.op = "mouseUp"
    /\ calls = <<"isDragging = false", "off move", "fitBounds">>
    /\ ~isDragging
    /\ "move" \notin mapListeners
    /\ Bounds # map.bounds
    /\ fitRequest = << [bounds |-> Bounds, duration |-> 500] >>

C18_DragStateResetOnRelease ==
    [][/\ evt'.op = "mouseUp" =>
             /\ currentPoint' = <<0, 0>>
             /\ previousPoint' = <<0, 0>>
             /\ ~isDragging'
             /\ ~isCursorOverFeature'
       /\ (~isDragging /\ evt'.op \in {"mouseMove", "move", "moveend"}) =>
             UNCHANGED <<currentPoint, previousPoint, isDragging,
                         isCursorOverFeature>>]_vars

\* C18: a pointer-up clears the dragging flag and keeps the two points and the
\* cursor-over flag; while idle a viewport event changes none of the four and
\* a pointer move changes only the cursor-over flag, to its hit-test result.
C18_ReleaseClearsOnlyDragFlag ==
    [][/\ evt'.op = "mouseUp" =>
             /\ ~isDragging'
             /\ UNCHANGED <<currentPoint, previousPoint, isCursorOverFeature>>
       /\ (~isDragging /\ evt'.op \in {"move", "moveend"}) =>
             UNCHANGED <<currentPoint, previousPoint, isDragging,
                         isCursorOverFeature>>
       /\ (~isDragging /\ evt'.op = "mouseMove") =>
             /\ UNCHANGED <<currentPoint, previousPoint, isDragging>>
             /\ isCursorOverFeature' =
                   queryRenderedFeatures(trackingRectCoordinates,
                                         evt'.point)]_vars

\* A pointer-up has ended a drag: the points of the drag and the cursor-over
\* flag are still there.
C18_Witness ==
    /\ evt.op = "mouseUp"
    /\ drags = 1
    /\ ~isDragging
    /\ currentPoint = <<5, 0>>
    /\ previousPoint = <<-175, -85>>
    /\ isCursorOverFeature

\* C19: every pointer move handled on the loaded inset leaves the cursor-over
\* flag equal to the hit test of its point against the rectangle as drawn
\* when the event arrives, and in every reachable state the canvas cursor is
\* "move" when the flag is set and "" when it is not, during a drag as well.
C19_HoverFlagIsHitTestAndDrivesCursor ==
    /\ [](cursor = IF isCursorOverFeature THEN "move" ELSE "")
    /\ [][evt'.op = "mouseMove" =>
             isCursorOverFeature' =
                queryRenderedFeatures(trackingRectCoordinates,
                                      evt'.point)]_vars

\* During a drag a pointer move left the rectangle: the flag was cleared and
\* the cursor restored while the drag goes on.
C19_Witness ==
    /\ DragMoved
    /\ ~queryRenderedFeatures(trackingRectCoordinates, evt.point)
    /\ ~isCursorOverFeature
    /\ cursor = ""

\* C20: during a drag in which no clamp has cut a translation, the stored
\* bounds are the bounds of the drag's pointer-down with both corners
\* translated by the last pointer point minus the pointer-down point; the
\* point held before the pointer-down has no part in it.
C20_DragTranslationTelescopes ==
    (isDragging /\ dragStart.active /\ ~dragStart.clamped) =>
        LET dx == currentPoint[1] - dragStart.point[1]
            dy == currentPoint[2] - dragStart.point[2]
            b == dragStart.bounds
        IN  Bounds = MkBounds(LngLat(b.ne.lng + dx, b.ne.lat + dy),
                              LngLat(b.sw.lng + dx, b.sw.lat + dy))

\* A drag begun at (-175,-85) on NE(-170,-80)/SW(-178,-88), with [0,0] held
\* from before, has moved to (0,0) and then to (5,0): the bounds are
\* translated by (180,85).
C20_Witness ==
    /\ DragMoved
    /\ dragStart = [active |-> TRUE,
                    bounds |-> MkBounds(LngLat(-170, -80), LngLat(-178, -88)),
                    point |-> <<-175, -85>>, clamped |-> FALSE]
    /\ previousPoint = <<0, 0>>
    /\ currentPoint = <<5, 0>>
    /\ Bounds = MkBounds(LngLat(10, 5), LngLat(2, -3))

\* C21: with enableResize on, the window 'mousemove' handler that resizes
\* the inset becomes attached only by a mouse-down on the container, and
\* every mouse-up in the window, the first one and all later ones, leaves it
\* detached.
C21_ResizeHandlerAttachedOnlyDuringGesture ==
    [][/\ ("window mousemove" \notin domListeners
             /\ "window mousemove" \in domListeners') =>
             evt'.op = "containerMouseDown"
       /\ evt'.op = "windowMouseUp" =>
             "window mousemove" \notin domListeners']_vars

=============================================================================
